---- MODULE Spec2Model ----
(***************************************************************************)
(* domainlookup (cmd/domainlookup/domainlookup.go): bulk RDAP lookups of   *)
(* domains under a global concurrency limit.                               *)
(*                                                                         *)
(* Go strings are modelled as sequences of tokens (one token per           *)
(* character, or one token for a piece no code looks inside), so that      *)
(* strings.Split, the map lookup by label and the URL formatting are       *)
(* computed, not assumed.  "a.c" is <<"a", ".", "c">>.                     *)
(***************************************************************************)
EXTENDS Integers, Sequences, FiniteSets, Bags, TLC

VARIABLES
    dns,              \* main: the bootstrap document rdapDNSInfo returned (*RdapDNS)
    rdapLookupMap,    \* main: rdapMap / worker.rdapLookupMap
    err,              \* main: the error of rdapDNS.LookupMap ("" is nil)
    mainPc,           \* main goroutine: "start", "usage", "fatal", "range",
                      \* "exit"; "killed" after a log.Fatal of the producer
    exitCode,         \* the exit code of the process (-1 while it runs)
    fDomain,          \* the -d flag: the domains of the command line
    fFile,            \* the -f flag: a file name ("" is not given)
    file,             \* the file of -f: "none", "ok", "openerr", "scanerr"
    limit,            \* fConcurrency: cap(worker.concurrencies)
    input,            \* the domains the producer goroutine feeds, in order:
                      \* fDomain, then the lines of the file
    net,              \* the remote endpoints: URL -> response of http.Get
    prodIdx,          \* producer goroutine: index of the next domain to send
    prodPc,           \* producer goroutine: "unstarted", "send" (the -d
                      \* domains), "scan" (the lines of the file), "done"
    uncheckedClosed,  \* close(unchecked) has run
    dispPc,           \* LookupWorker.Start: "unstarted", "range", "acquire", "wait", "close", "end"
    dispDomain,       \* LookupWorker.Start: the loop variable domain
    wg,               \* the sync.WaitGroup counter
    sem,              \* len(worker.concurrencies)
    tasks,            \* the goroutines started by Start, in start order
    resultClosed,     \* close(worker.Result) has run
    printed,          \* the results main received and printed, in order
    requests,         \* the URLs given to http.Get, in order
    panicked          \* a goroutine panicked (send on closed channel)

\* the command line and the file it names
cmd == <<fDomain, fFile, file>>

vars == <<cmd, exitCode, dns, rdapLookupMap, err, mainPc, limit, input, net,
          prodIdx, prodPc, uncheckedClosed, dispPc, dispDomain, wg, sem, tasks,
          resultClosed, printed, requests, panicked>>

----------------------------------------------------------------------------
(* Bounds of the model. *)

\* longest list of domains fed to the work queue
MaxDomains == 3
\* largest concurrency limit (-c)
MaxC == 2
\* most service tuples in a bootstrap document
MaxServices == 2
\* most elements in a service tuple (a well-formed one has two)
MaxTuple == 3
\* largest HTTP status code tried (three digits)
MaxStatus == 999

----------------------------------------------------------------------------
(* Strings. *)

Range(s) == {s[i] : i \in 1..Len(s)}

SeqsUpTo(S, n) == UNION {[1..k -> S] : k \in 0..n}

\* strings.Split(s, sep) for a one-character separator
RECURSIVE Split(_, _)
Split(s, sep) ==
    IF s = <<>> THEN << <<>> >>
    ELSE LET rest == Split(Tail(s), sep)
         IN  IF Head(s) = sep
             THEN << <<>> >> \o rest
             ELSE << <<Head(s)>> \o Head(rest) >> \o Tail(rest)

\* a plausible slip: the first segment instead of the last
topdomainFirst(domain) ==
    IF domain = <<>> THEN <<>>
    ELSE LET arr == Split(domain, ".") IN arr[1]

\* LookupWorker.topdomain
topdomain(domain) ==
    IF domain = <<>> THEN <<>>
    ELSE LET arr == Split(domain, ".") IN arr[Len(arr)]

\* a plausible slip: the arguments of Sprintf are swapped
rdapLookupURLSwapped(rdap, domain) == domain \o <<"/domain/">> \o rdap

\* LookupWorker.rdapLookupURL: fmt.Sprintf("%s/domain/%s", rdap, domain)
rdapLookupURL(rdap, domain) == rdap \o <<"/domain/">> \o domain

----------------------------------------------------------------------------
(* Messages of a DomainLookupResult. *)

MsgNoServer == "No RDAP server found"
MsgRegistered == "Registered"
MsgUnregistered == "Unregistered"
MsgServerError == "RDAP server error"
MsgUnknown == "Unknown error"
\* err.Error() of a failed http.Get or io.ReadAll
MsgTransport == "transport error"

\* a plausible slip: 404 tested after the >= 500 and < 300 ranges are widened
ClassifyLoose(statusCode) ==
    IF statusCode >= 200 /\ statusCode <= 300 THEN MsgRegistered
    ELSE IF statusCode = 404 THEN MsgUnregistered
    ELSE IF statusCode >= 500 THEN MsgServerError
    ELSE MsgUnknown

\* the switch on resp.StatusCode in the task started by LookupWorker.Start
Classify(statusCode) ==
    IF statusCode >= 200 /\ statusCode < 300 THEN MsgRegistered
    ELSE IF statusCode = 404 THEN MsgUnregistered
    ELSE IF statusCode >= 500 THEN MsgServerError
    ELSE MsgUnknown

----------------------------------------------------------------------------
(* The Registry Directory: RdapDNS and RdapDNS.LookupMap. *)

\* labels and endpoint base URLs used in documents
Lc == <<"c">>
Le == <<"e">>
R1 == <<"r1">>
R2 == <<"r2">>

\* a Go map[string][]string: nil, or a finite function from keys to lists
NilMap == [nil |-> TRUE, kv |-> <<>>]

MakeMap == [nil |-> FALSE, kv |-> <<>>]

\* the nil *RdapDNS
NilDNS == [nil |-> TRUE, Services |-> <<>>]

\* m[k] = v
MapPut(kv, k, v) == [x \in (DOMAIN kv) \cup {k} |-> IF x = k THEN v ELSE kv[x]]

\* a plausible slip: an existing key is kept (first write wins)
MapPutIfAbsent(kv, k, v) ==
    [x \in (DOMAIN kv) \cup {k} |-> IF x \in DOMAIN kv THEN kv[x] ELSE v]

\* m[topdomain] = service[1]
MapAssign(kv, k, v) == MapPut(kv, k, v)

\* for _, topdomain := range service[0] { m[topdomain] = service[1] }
RECURSIVE PutLabels(_, _, _)
PutLabels(kv, labels, urls) ==
    IF labels = <<>> THEN kv
    ELSE PutLabels(MapAssign(kv, Head(labels), urls), Tail(labels), urls)

\* a plausible slip: a malformed tuple is skipped instead of failing the build
RECURSIVE ServicesLoopSkip(_, _)
ServicesLoopSkip(services, kv) ==
    IF services = <<>> THEN [m |-> [nil |-> FALSE, kv |-> kv], err |-> ""]
    ELSE LET service == Head(services)
         IN  IF Len(service) # 2
             THEN ServicesLoopSkip(Tail(services), kv)
             ELSE ServicesLoopSkip(Tail(services),
                                   PutLabels(kv, service[1], service[2]))

\* for _, service := range dns.Services { ... } ; return m, nil
RECURSIVE ServicesLoop(_, _)
ServicesLoop(services, kv) ==
    IF services = <<>> THEN [m |-> [nil |-> FALSE, kv |-> kv], err |-> ""]
    ELSE LET service == Head(services)
         IN  IF Len(service) # 2
             THEN [m |-> NilMap, err |-> "service is not a tuple"]
             ELSE ServicesLoop(Tail(services),
                               PutLabels(kv, service[1], service[2]))

\* RdapDNS.LookupMap
LookupMap(d) ==
    IF d.nil \/ Len(d.Services) = 0
    THEN [m |-> NilMap, err |-> "rdap services is empty"]
    ELSE ServicesLoop(d.Services, MakeMap.kv)

\* the string lists a document is built from
DocLists == {<<>>, <<Lc>>, <<Lc, Le>>, <<R1>>}

\* service tuples: any two lists, then up to MaxTuple - 2 further elements
Tuples ==
    {t \in SeqsUpTo(DocLists, MaxTuple) : \A i \in 3..Len(t) : t[i] = <<>>}

\* bootstrap documents, the nil one included
AllDocs ==
    {NilDNS} \cup {[nil |-> FALSE, Services |-> s] : s \in SeqsUpTo(Tuples, MaxServices)}

\* the document of the lookup runs: "c" has two endpoints, "e" has none
BootstrapDoc ==
    [nil |-> FALSE,
     Services |-> << << <<Lc>>, <<R1, R2>> >>, << <<Le>>, <<>> >> >>]

\* a document with a 3-element tuple after a well-formed one
BadDoc ==
    [nil |-> FALSE,
     Services |-> << << <<Lc>>, <<R1, R2>> >>, << <<Le>>, <<R1>>, <<>> >> >>]

RunDocs == {BootstrapDoc, BadDoc}

----------------------------------------------------------------------------
(* The inputs of a run. *)

\* domains: a hit, a miss whose first label is a key, the empty string, and
\* a label whose endpoint list is empty
Dac == <<"a", ".", "c">>
Dcx == <<"c", ".", "x">>
Dempty == <<>>
Dae == <<"a", ".", "e">>

Pool == {Dac, Dcx}

\* the lists of domains of the runs: every list over Pool of up to MaxDomains
\* domains, and lists with the empty string and with the label whose
\* endpoint list is empty
Inputs ==
    SeqsUpTo(Pool, MaxDomains)
    \cup {<<Dempty>>, <<Dempty, Dac>>, <<Dac, Dcx, Dempty>>, <<Dae>>, <<Dac, Dae>>}

\* the outcome of http.Get followed by io.ReadAll: an error, or a response
TransportErr == [err |-> TRUE, StatusCode |-> 0]

\* a server that accepts the request and never answers
Hang == [err |-> TRUE, StatusCode |-> -1]

\* the call to http.Get and io.ReadAll returns
Returns(r) == r # Hang

Response(s) == [err |-> FALSE, StatusCode |-> s]

\* the statuses the servers of the runs answer with (every status is tried
\* in SpecClassify)
RunStatuses == {404, 301}

Responses == {TransportErr} \cup {Response(s) : s \in RunStatuses}

\* the URLs some server answers; any other URL fails to connect
NetURLs == {rdapLookupURL(R1, Dac)}

\* http.Get(query) and io.ReadAll(resp.Body) in queryRdap
HttpGet(url) == IF url \in DOMAIN net THEN net[url] ELSE TransportErr

----------------------------------------------------------------------------
(* main, up to the start of the goroutines. *)

\* a command line: the -d domains, the -f file name, the state of that file
\* and its lines
CmdLine(d, f, st, lines) == [fDomain |-> d, fFile |-> f, file |-> st, lines |-> lines]

\* the command line that feeds a list of domains from a readable file
FromFile(in) == CmdLine(<<>>, "f", "ok", in)

\* the state main starts from, for given sets of documents, command lines,
\* limits and networks
InitRun(docs, cmds, limits, nets) ==
    /\ \E c \in cmds :
          /\ fDomain = c.fDomain
          /\ fFile = c.fFile
          /\ file = c.file
          /\ input = c.fDomain \o c.lines
    /\ exitCode = -1
    /\ dns \in docs
    /\ rdapLookupMap = NilMap
    /\ err = ""
    /\ mainPc = "start"
    /\ limit \in limits
    /\ net \in nets
    /\ prodIdx = 1
    /\ prodPc = "unstarted"
    /\ uncheckedClosed = FALSE
    /\ dispPc = "unstarted"
    /\ dispDomain = <<>>
    /\ wg = 0
    /\ sem = 0
    /\ tasks = <<>>
    /\ resultClosed = FALSE
    /\ printed = <<>>
    /\ requests = <<>>
    /\ panicked = FALSE

\* the same with every list of domains fed from a readable file
InitWith(docs, inputs, limits, nets) ==
    InitRun(docs, {FromFile(in) : in \in inputs}, limits, nets)

Init == InitWith(RunDocs, Inputs, 0..MaxC, [NetURLs -> Responses])

\* a plausible slip: one missing flag is enough for the usage error
UsageEither == Len(fDomain) = 0 \/ fFile = ""

\* len(fDomain) == 0 && fFile == ""
Usage == Len(fDomain) = 0 /\ fFile = ""

\* main: flag.Usage() and os.Exit(1) without a flag; else
\* rdapDNS.LookupMap(), log.Fatal on error, else the worker is built and the
\* two goroutines (Start, the producer) are started
MainLookupMap ==
    /\ mainPc = "start"
    /\ IF Usage
       THEN /\ mainPc' = "usage"
            /\ exitCode' = 1
            /\ UNCHANGED <<rdapLookupMap, err, dispPc, prodPc>>
       ELSE LET r == LookupMap(dns)
            IN  /\ rdapLookupMap' = r.m
                /\ err' = r.err
                /\ IF r.err # ""
                   THEN /\ mainPc' = "fatal"
                        /\ exitCode' = 1
                        /\ UNCHANGED <<dispPc, prodPc>>
                   ELSE /\ mainPc' = "range"
                        /\ dispPc' = "range"
                        /\ prodPc' = "send"
                        /\ UNCHANGED exitCode
    /\ UNCHANGED <<cmd, dns, limit, input, net, prodIdx, uncheckedClosed, dispDomain,
                   wg, sem, tasks, resultClosed, printed, requests, panicked>>

\* the process is alive: main has not returned and no goroutine panicked
Running == mainPc = "range" /\ ~panicked

----------------------------------------------------------------------------
(* The producer goroutine of main and the loop of LookupWorker.Start. *)

\* unchecked <- domain meets `for domain := range worker.unchecked`
\* (an unbuffered channel: one joint step), then wg.Add(1)
DispatcherRecv ==
    /\ Running
    /\ \/ prodPc = "send" /\ prodIdx <= Len(fDomain)
       \/ prodPc = "scan" /\ prodIdx <= Len(input)
    /\ dispPc = "range"
    /\ dispDomain' = input[prodIdx]
    /\ prodIdx' = prodIdx + 1
    /\ wg' = wg + 1
    /\ dispPc' = "acquire"
    /\ UNCHANGED <<cmd, exitCode, dns, rdapLookupMap, err, mainPc, limit, input, net, prodPc,
                   uncheckedClosed, sem, tasks, resultClosed, printed, requests,
                   panicked>>

\* if fFile != "": os.Open(fFile), log.Fatal(err) when it fails
ProducerOpen ==
    /\ Running
    /\ prodPc = "send" /\ prodIdx > Len(fDomain)
    /\ fFile # ""
    /\ IF file = "openerr"
       THEN /\ mainPc' = "killed"
            /\ exitCode' = 1
            /\ UNCHANGED prodPc
       ELSE /\ prodPc' = "scan"
            /\ UNCHANGED <<mainPc, exitCode>>
    /\ UNCHANGED <<cmd, dns, rdapLookupMap, err, limit, input, net, prodIdx,
                   uncheckedClosed, dispPc, dispDomain, wg, sem, tasks,
                   resultClosed, printed, requests, panicked>>

\* the producer has sent every domain it has
ProducerAtEnd ==
    IF fFile = "" THEN prodPc = "send" /\ prodIdx > Len(fDomain)
    ELSE prodPc = "scan" /\ prodIdx > Len(input)

\* log.Fatal(err) when scanner.Err() is not nil, else close(unchecked)
ProducerClose ==
    /\ Running
    /\ ProducerAtEnd
    /\ IF fFile # "" /\ file = "scanerr"
       THEN /\ mainPc' = "killed"
            /\ exitCode' = 1
            /\ UNCHANGED <<uncheckedClosed, prodPc>>
       ELSE /\ uncheckedClosed' = TRUE
            /\ prodPc' = "done"
            /\ UNCHANGED <<mainPc, exitCode>>
    /\ UNCHANGED <<cmd, dns, rdapLookupMap, err, limit, input, net, prodIdx,
                   dispPc, dispDomain, wg, sem, tasks, resultClosed, printed,
                   requests, panicked>>

\* a task goroutine as the go statement creates it
NewTask(d) == [domain |-> d, pc |-> "lookup", query |-> <<>>, message |-> ""]

\* a plausible slip: one slot too many
CanAcquireOffByOne == sem <= limit

\* a plausible slip: the channel is made without the limit, tasks run one
\* at a time
CanAcquireSerial == sem < 1 /\ limit > 0

\* worker.concurrencies <- struct{}{} : blocks while the channel is full
CanAcquire == sem < limit

\* worker.concurrencies <- struct{}{} and the go statement after it
DispatcherAcquire ==
    /\ Running
    /\ dispPc = "acquire"
    /\ CanAcquire
    /\ sem' = sem + 1
    /\ tasks' = Append(tasks, NewTask(dispDomain))
    /\ dispPc' = "range"
    /\ UNCHANGED <<cmd, exitCode, dns, rdapLookupMap, err, mainPc, limit, input, net, prodIdx,
                   prodPc, uncheckedClosed, dispDomain, wg, resultClosed,
                   printed, requests, panicked>>

\* the range loop ends on the closed, drained channel
DispatcherLoopEnd ==
    /\ Running
    /\ dispPc = "range"
    /\ uncheckedClosed
    /\ dispPc' = "wait"
    /\ UNCHANGED <<cmd, exitCode, dns, rdapLookupMap, err, mainPc, limit, input, net, prodIdx,
                   prodPc, uncheckedClosed, dispDomain, wg, sem, tasks,
                   resultClosed, printed, requests, panicked>>

\* a plausible slip: no barrier before the close
WaitReturnsAtOnce == TRUE

\* a plausible slip: the test of the counter is inverted
WaitReturnsInverted == wg # 0

\* wg.Wait() returns when the counter is zero
WaitReturns == wg = 0

DispatcherWait ==
    /\ Running
    /\ dispPc = "wait"
    /\ WaitReturns
    /\ dispPc' = "close"
    /\ UNCHANGED <<cmd, exitCode, dns, rdapLookupMap, err, mainPc, limit, input, net, prodIdx,
                   prodPc, uncheckedClosed, dispDomain, wg, sem, tasks,
                   resultClosed, printed, requests, panicked>>

\* close(worker.Result)
DispatcherClose ==
    /\ Running
    /\ dispPc = "close"
    /\ resultClosed' = TRUE
    /\ dispPc' = "end"
    /\ UNCHANGED <<cmd, exitCode, dns, rdapLookupMap, err, mainPc, limit, input, net, prodIdx,
                   prodPc, uncheckedClosed, dispDomain, wg, sem, tasks,
                   printed, requests, panicked>>

----------------------------------------------------------------------------
(* The task goroutine: go func(domain string) { ... }(domain). *)

\* a plausible slip: the closure reads the loop variable of Start
TaskDomainShared(t) == dispDomain

\* the parameter domain of the task
TaskDomain(t) == tasks[t].domain

\* a plausible slip: only a missing key counts, an empty list is indexed
NoServerKeyOnly(ok, apis) == ~ok

\* !ok || len(apis) == 0
NoServer(ok, apis) == ~ok \/ Len(apis) = 0

\* apis, ok := worker.rdapLookupMap[worker.topdomain(domain)], then either
\* the "No RDAP server found" result is built, or queryRdap issues the
\* request to apis[0]
TaskLookup(t) ==
    /\ Running
    /\ tasks[t].pc = "lookup"
    /\ LET d == TaskDomain(t)
           label == topdomain(d)
           ok == ~rdapLookupMap.nil /\ label \in DOMAIN rdapLookupMap.kv
           apis == IF ok THEN rdapLookupMap.kv[label] ELSE <<>>
       IN  IF NoServer(ok, apis)
           THEN /\ tasks' = [tasks EXCEPT ![t].message = MsgNoServer,
                                          ![t].pc = "send"]
                /\ UNCHANGED requests
           ELSE LET query == rdapLookupURL(apis[1], d)
                IN  /\ tasks' = [tasks EXCEPT ![t].query = query,
                                              ![t].pc = "query"]
                    /\ requests' = Append(requests, query)
    /\ UNCHANGED <<cmd, exitCode, dns, rdapLookupMap, err, mainPc, limit, input, net, prodIdx,
                   prodPc, uncheckedClosed, dispPc, dispDomain, wg, sem,
                   resultClosed, printed, panicked>>

\* a plausible slip: a failed request is issued again
AfterQueryRetry(r) == IF r.err THEN "lookup" ELSE "send"

\* a plausible slip: the send is left out when the request failed
AfterQuerySilent(r) == IF r.err THEN "release" ELSE "send"

\* after queryRdap the task builds its one result and sends it, whether
\* the request failed or was answered
AfterQuery(r) == "send"

\* queryRdap returns (http.Get and io.ReadAll have no timeout: a server that
\* never answers keeps the task here): err.Error() is the message, or the
\* status is classified
TaskResponse(t) ==
    /\ Running
    /\ tasks[t].pc = "query"
    /\ LET r == HttpGet(tasks[t].query)
       IN  /\ Returns(r)
           /\ tasks' = [tasks EXCEPT
                          ![t].message = IF r.err THEN MsgTransport
                                         ELSE Classify(r.StatusCode),
                          ![t].pc = AfterQuery(r)]
    /\ UNCHANGED <<cmd, exitCode, dns, rdapLookupMap, err, mainPc, limit, input, net, prodIdx,
                   prodPc, uncheckedClosed, dispPc, dispDomain, wg, sem,
                   resultClosed, printed, requests, panicked>>

\* a plausible slip: the "No RDAP server found" path returns without the
\* deferred release
AfterSendLeaky(message) == IF message = MsgNoServer THEN "done" ELSE "release"

\* a plausible slip: the return after the "No RDAP server found" send is
\* missing, and the task goes on to query and send again
AfterSendFallThrough(message) ==
    IF message = MsgNoServer THEN "query" ELSE "release"

\* after the send the task returns and its deferred function runs
AfterSend(message) == "release"

\* worker.Result <- &DomainLookupResult{...} meets main's
\* `for result := range lookupWorker.Result` and its Printf (an unbuffered
\* channel: one joint step); a send on the closed channel panics
TaskSend(t) ==
    /\ Running
    /\ tasks[t].pc = "send"
    /\ IF resultClosed
       THEN /\ panicked' = TRUE
            /\ UNCHANGED <<tasks, printed>>
       ELSE /\ printed' = Append(printed, [Domain |-> TaskDomain(t),
                                           Message |-> tasks[t].message])
            /\ tasks' = [tasks EXCEPT ![t].pc = AfterSend(tasks[t].message)]
            /\ UNCHANGED panicked
    /\ UNCHANGED <<cmd, exitCode, dns, rdapLookupMap, err, mainPc, limit, input, net, prodIdx,
                   prodPc, uncheckedClosed, dispPc, dispDomain, wg, sem,
                   resultClosed, requests>>

\* deferred: <-worker.concurrencies
TaskRelease(t) ==
    /\ Running
    /\ tasks[t].pc = "release"
    /\ sem > 0
    /\ sem' = sem - 1
    /\ tasks' = [tasks EXCEPT ![t].pc = "done"]
    /\ UNCHANGED <<cmd, exitCode, dns, rdapLookupMap, err, mainPc, limit, input, net, prodIdx,
                   prodPc, uncheckedClosed, dispPc, dispDomain, wg,
                   resultClosed, printed, requests, panicked>>

\* deferred: wg.Done(), and the goroutine ends
TaskDone(t) ==
    /\ Running
    /\ tasks[t].pc = "done"
    /\ wg' = wg - 1
    /\ tasks' = [tasks EXCEPT ![t].pc = "exit"]
    /\ UNCHANGED <<cmd, exitCode, dns, rdapLookupMap, err, mainPc, limit, input, net, prodIdx,
                   prodPc, uncheckedClosed, dispPc, dispDomain, sem,
                   resultClosed, printed, requests, panicked>>

\* main: the range over the closed Result ends and main returns
MainExit ==
    /\ Running
    /\ resultClosed
    /\ mainPc' = "exit"
    /\ exitCode' = 0
    /\ UNCHANGED <<cmd, dns, rdapLookupMap, err, limit, input, net, prodIdx, prodPc,
                   uncheckedClosed, dispPc, dispDomain, wg, sem, tasks,
                   resultClosed, printed, requests, panicked>>

Next ==
    \/ MainLookupMap
    \/ DispatcherRecv
    \/ ProducerOpen
    \/ ProducerClose
    \/ DispatcherAcquire
    \/ DispatcherLoopEnd
    \/ DispatcherWait
    \/ DispatcherClose
    \/ \E t \in 1..Len(tasks) : TaskLookup(t)
    \/ \E t \in 1..Len(tasks) : TaskResponse(t)
    \/ \E t \in 1..Len(tasks) : TaskSend(t)
    \/ \E t \in 1..Len(tasks) : TaskRelease(t)
    \/ \E t \in 1..Len(tasks) : TaskDone(t)
    \/ MainExit

Spec == Init /\ [][Next]_vars

\* the runs with a limit of at least one and a well-formed document, under
\* a fair scheduler: the Go scheduler runs a goroutine that can take a
\* step, main keeps receiving from Result, and http.Get returns; some
\* enabled step is eventually taken
InitFair ==
    InitWith({BootstrapDoc}, Inputs, 1..MaxC,
             [NetURLs -> {TransportErr, Response(404)}])

FairSpec == InitFair /\ [][Next]_vars /\ WF_vars(Next)

----------------------------------------------------------------------------
(* RdapDNS.LookupMap on every bounded bootstrap document. *)

InitMap ==
    InitWith(AllDocs, {<<>>}, {1}, {[u \in NetURLs |-> TransportErr]})

NextMap == MainLookupMap

SpecMap == InitMap /\ [][NextMap]_vars

----------------------------------------------------------------------------
(* The lookup of one domain whose server answers with any status code. *)

StatusCodes == 0..MaxStatus

InitClassify ==
    InitWith({BootstrapDoc}, {<<Dac>>}, {1},
             {[u \in NetURLs |-> Response(s)] : s \in StatusCodes})

SpecClassify == InitClassify /\ [][Next]_vars

----------------------------------------------------------------------------
(* main with every command line: domains from -d, from the lines of a    *)
(* file, from both or from neither, and a file that cannot be opened or   *)
(* read to its end.                                                       *)

\* the command lines without -f
CmdLinesNoFile == {CmdLine(d, "", "none", <<>>) : d \in SeqsUpTo(Pool, MaxDomains)}

\* the command lines with -f: the file is read (wholly, or up to a read
\* error after its lines), or os.Open fails
CmdLinesFile ==
    {CmdLine(d, "f", "openerr", <<>>) : d \in SeqsUpTo(Pool, MaxDomains)}
    \cup UNION {{CmdLine(d, "f", st, l) : st \in {"ok", "scanerr"}} :
                  d \in SeqsUpTo(Pool, MaxDomains),
                  l \in SeqsUpTo(Pool, MaxDomains)}

CmdLines ==
    {c \in CmdLinesNoFile \cup CmdLinesFile :
        Len(c.fDomain) + Len(c.lines) <= MaxDomains}

InitMain ==
    InitRun(RunDocs, CmdLines, {1}, {[u \in NetURLs |-> TransportErr]})

SpecMain == InitMain /\ [][Next]_vars

----------------------------------------------------------------------------
(* Runs in which the server never answers the request for "a.c" and       *)
(* answers the request for "b.c".  The scheduler runs a goroutine that    *)
(* can take a step, main keeps receiving, and a call that can return      *)
(* does: some enabled step is eventually taken.                           *)

Dbc == <<"b", ".", "c">>

HangPool == {Dac, Dbc}

\* every list over HangPool, and one with a domain without a server
HangInputs == SeqsUpTo(HangPool, MaxDomains) \cup {<<Dac, Dbc, Dcx>>}

HangNet ==
    [u \in {rdapLookupURL(R1, Dac), rdapLookupURL(R1, Dbc)} |->
        IF u = rdapLookupURL(R1, Dac) THEN Hang ELSE Response(404)]

InitHang ==
    InitWith({BootstrapDoc}, HangInputs, 1..MaxC, {HangNet})

SpecHang == InitHang /\ [][Next]_vars /\ WF_vars(Next)

----------------------------------------------------------------------------
(* Runs with directories that list the empty string as a label: JSON      *)
(* admits "" in a label list and LookupMap inserts every label as it is.  *)

\* "" has an endpoint, "c" has two
EmptyLabelDoc ==
    [nil |-> FALSE,
     Services |-> << << <<Dempty>>, <<R1>> >>, << <<Lc>>, <<R1, R2>> >> >>]

\* "" is listed with an empty endpoint list
EmptyLabelNoEndpointDoc ==
    [nil |-> FALSE,
     Services |-> << << <<Dempty, Lc>>, <<>> >> >>]

DirDocs == {BootstrapDoc, EmptyLabelDoc, EmptyLabelNoEndpointDoc}

\* the server answers the request for the empty domain, not the other
DirNets ==
    {[u \in {rdapLookupURL(R1, Dac), rdapLookupURL(R1, Dempty)} |->
        IF u = rdapLookupURL(R1, Dempty) THEN Response(200) ELSE TransportErr]}

InitDirs ==
    InitWith(DirDocs, SeqsUpTo({Dempty, Dac}, MaxDomains), 1..MaxC, DirNets)

SpecDirs == InitDirs /\ [][Next]_vars

----------------------------------------------------------------------------
(* Vocabulary of the properties. *)

TaskIds == 1..Len(tasks)

\* the task was started and has not yet given its slot back
Active(t) == tasks[t].pc \in {"lookup", "query", "send", "release"}

ActiveTasks == {t \in TaskIds : Active(t)}

\* the task has built its message
HasMessage(t) == tasks[t].pc \in {"send", "release", "done", "exit"}

\* the domains the dispatcher has taken from the work queue
Dequeued == SubSeq(input, 1, prodIdx - 1)

PrintedDomains == [i \in 1..Len(printed) |-> printed[i].Domain]

\* the multiset of the elements of a sequence
BagOfSeq(s) == [x \in Range(s) |-> Cardinality({i \in 1..Len(s) : s[i] = x})]

\* the segment after the last "." (the whole string without one)
LastDot(d) == LET dots == {i \in 1..Len(d) : d[i] = "."}
              IN  IF dots = {} THEN 0 ELSE CHOOSE i \in dots : \A j \in dots : j <= i

LastLabel(d) == SubSeq(d, LastDot(d) + 1, Len(d))

IsKey(label) == ~rdapLookupMap.nil /\ label \in DOMAIN rdapLookupMap.kv

----------------------------------------------------------------------------
(* C1: when the Result stream is closed, the multiset of the domains of   *)
(* the delivered outcomes equals the multiset of the input domains; at    *)
(* any time no domain has more outcomes than it was enqueued.             *)
C1_OneOutcomePerDomain ==
    /\ BagOfSeq(PrintedDomains) \sqsubseteq BagOfSeq(Dequeued)
    /\ resultClosed => BagOfSeq(PrintedDomains) = BagOfSeq(input)

\* a closed stream after a list with a repeated domain, every lookup failed
C1_Witness ==
    /\ resultClosed
    /\ limit >= 1
    /\ Len(input) >= 3
    /\ input[1] = input[2]
    /\ Dac \in Range(input)
    /\ \A i \in 1..Len(printed) : printed[i].Message \in {MsgNoServer, MsgTransport}

(* C2: the number of tasks started and not yet ended (a task ends when    *)
(* its deferred function gives the slot back) never exceeds the limit.    *)
C2_AtMostLimitTasks == Cardinality(ActiveTasks) <= limit

\* the limit is reached while the dispatcher holds a further domain
C2_Witness ==
    /\ limit >= 1
    /\ Cardinality(ActiveTasks) = limit
    /\ dispPc = "acquire"
    /\ Len(input) > limit

(* C3: the Result stream is closed only after every started task has      *)
(* delivered its outcome and ended: no send meets a closed stream, and    *)
(* at the close every dequeued domain has its task, its outcome and the   *)
(* task has ended.                                                        *)
C3_CloseAfterAllTasks ==
    /\ ~panicked
    /\ dispPc \in {"close", "end"} =>
          /\ Len(tasks) = Len(Dequeued)
          /\ Len(printed) = Len(Dequeued)
          /\ \A t \in TaskIds : tasks[t].pc = "exit"
    /\ resultClosed => dispPc = "end"

\* the stream is closed after two tasks ran side by side
C3_Witness ==
    /\ resultClosed
    /\ limit >= 2
    /\ Len(tasks) >= 2
    /\ \A t \in TaskIds : tasks[t].pc = "exit"

(* C4: with no domain enqueued no task is started, no slot acquired and   *)
(* no outcome delivered, and until the Result stream is closed the next   *)
(* step towards the close (open of the file, close of the queue, end of   *)
(* the loop, return of the wait, close of the stream) can always be taken.*)
C4_EmptyInputCloses ==
    (input = <<>> /\ mainPc \in {"range", "exit"}) =>
        /\ tasks = <<>>
        /\ sem = 0
        /\ wg = 0
        /\ printed = <<>>
        /\ requests = <<>>
        /\ dispPc # "acquire"
        /\ (mainPc = "range" /\ ~resultClosed) =>
              ENABLED (ProducerOpen \/ ProducerClose \/ DispatcherLoopEnd
                       \/ DispatcherWait \/ DispatcherClose)

\* the stream is closed and main has returned after an empty input
C4_Witness == input = <<>> /\ resultClosed /\ mainPc = "exit" /\ printed = <<>>

(* C5: the message of a completed query is decided by the status code     *)
(* alone: "Registered" exactly for 200..299, "Unregistered" exactly for   *)
(* 404, "RDAP server error" exactly for 500 and above, "Unknown error"    *)
(* exactly for every other status.                                        *)
C5_StatusClasses ==
    \A t \in TaskIds :
        (HasMessage(t) /\ ~HttpGet(tasks[t].query).err) =>
            LET s == HttpGet(tasks[t].query).StatusCode
                m == tasks[t].message
            IN  /\ m \in {MsgRegistered, MsgUnregistered, MsgServerError, MsgUnknown}
                /\ m = MsgRegistered <=> s \in 200..299
                /\ m = MsgUnregistered <=> s = 404
                /\ m = MsgServerError <=> s >= 500
                /\ m = MsgUnknown <=> (s < 200 \/ (s >= 300 /\ s < 500 /\ s # 404))
                /\ \A i \in 1..Len(printed) : printed[i].Message = m

\* a 4xx status other than 404 was answered and printed as "Unknown error"
C5_Witness ==
    /\ resultClosed
    /\ printed = <<[Domain |-> Dac, Message |-> MsgUnknown]>>
    /\ HttpGet(rdapLookupURL(R1, Dac)).StatusCode = 403

(* C6: a domain whose last label is not a key of the directory gets the   *)
(* outcome "No RDAP server found", and no request is ever issued for it:  *)
(* every request is the query of a task whose label is a key.             *)
C6_MissIsNoServer ==
    /\ \A t \in TaskIds :
          ~IsKey(LastLabel(tasks[t].domain)) =>
              /\ tasks[t].pc # "query"
              /\ tasks[t].query = <<>>
              /\ HasMessage(t) => tasks[t].message = MsgNoServer
    /\ \A i \in 1..Len(printed) :
          ~IsKey(LastLabel(printed[i].Domain)) => printed[i].Message = MsgNoServer
    /\ \A i \in 1..Len(requests) :
          \E t \in TaskIds : /\ tasks[t].query = requests[i]
                             /\ IsKey(LastLabel(tasks[t].domain))
    /\ Len(requests) <= Cardinality({t \in TaskIds : IsKey(LastLabel(tasks[t].domain))})

\* "c.x" (its first label is a key, its last is not) got its outcome in a
\* run that also queried a server for "a.c"
C6_Witness ==
    /\ \E i \in 1..Len(printed) :
          printed[i] = [Domain |-> Dcx, Message |-> MsgNoServer]
    /\ requests = <<rdapLookupURL(R1, Dac)>>
    /\ resultClosed

\* the document has no service, or a tuple of another length than 2
Malformed(d) ==
    d.nil \/ Len(d.Services) = 0
          \/ \E i \in 1..Len(d.Services) : Len(d.Services[i]) # 2

(* C7: LookupMap fails, with a nil map, exactly when the document is nil, *)
(* the service list is empty or some tuple has not exactly two elements;  *)
(* main then stops before any lookup.                                     *)
C7_BuildFailsIffMalformed ==
    mainPc \notin {"start", "usage"} =>
        /\ err # "" <=> Malformed(dns)
        /\ err # "" <=> rdapLookupMap.nil
        /\ err # "" => rdapLookupMap.kv = <<>>
        /\ err # "" <=> mainPc = "fatal"
        /\ mainPc = "fatal" => dispPc = "unstarted" /\ prodPc = "unstarted"

\* the build failed on a 3-element tuple that follows a well-formed one
C7_Witness ==
    /\ mainPc = "fatal"
    /\ Len(dns.Services) = 2
    /\ Len(dns.Services[1]) = 2
    /\ dns.Services[1][1] # <<>>
    /\ Len(dns.Services[2]) = 3

\* the index of the last tuple whose label list contains the label
LastTupleWith(d, label) ==
    LET is == {i \in 1..Len(d.Services) : label \in Range(d.Services[i][1])}
    IN  CHOOSE i \in is : \A j \in is : j <= i

(* C8: when LookupMap succeeds its keys are exactly the labels of all     *)
(* tuples, and each label maps to the endpoint list of the last tuple     *)
(* whose label list contains it.                                          *)
C8_LastTupleWins ==
    (mainPc \notin {"start", "usage"} /\ err = "") =>
        /\ DOMAIN rdapLookupMap.kv =
              UNION {Range(dns.Services[i][1]) : i \in 1..Len(dns.Services)}
        /\ \A label \in DOMAIN rdapLookupMap.kv :
              rdapLookupMap.kv[label] = dns.Services[LastTupleWith(dns, label)][2]

\* a label listed by two tuples with different endpoint lists
C8_Witness ==
    /\ mainPc = "range"
    /\ Len(dns.Services) = 2
    /\ Lc \in Range(dns.Services[1][1]) \cap Range(dns.Services[2][1])
    /\ dns.Services[1][2] = <<R1>>
    /\ dns.Services[2][2] = <<Lc, Le>>
    /\ rdapLookupMap.kv[Lc] = <<Lc, Le>>

\* the message of the lookup of d on its own
ExpectedMessage(d) ==
    LET label == LastLabel(d)
    IN  IF ~IsKey(label) THEN MsgNoServer
        ELSE IF rdapLookupMap.kv[label] = <<>> THEN MsgNoServer
        ELSE LET r == HttpGet(rdapLookupURL(rdapLookupMap.kv[label][1], d))
             IN  IF r.err THEN MsgTransport
                 ELSE Classify(r.StatusCode)

(* C9: the message delivered for a domain depends only on the domain, the *)
(* directory and the answer of the domain's endpoint, whatever the other  *)
(* domains of the batch, their outcomes, the limit and the interleaving;  *)
(* no failure stops the batch.                                            *)
C9_SiblingsIndependent ==
    /\ ~panicked
    /\ \A i \in 1..Len(printed) :
          printed[i].Message = ExpectedMessage(printed[i].Domain)
    /\ \A t \in TaskIds :
          HasMessage(t) => tasks[t].message = ExpectedMessage(tasks[t].domain)

\* a transport error between two siblings without a server, delivered out
\* of input order
C9_Witness ==
    /\ resultClosed
    /\ limit = 2
    /\ input = <<Dac, Dcx, Dempty>>
    /\ HttpGet(rdapLookupURL(R1, Dac)).err
    /\ printed = <<[Domain |-> Dcx, Message |-> MsgNoServer],
                   [Domain |-> Dac, Message |-> MsgTransport],
                   [Domain |-> Dempty, Message |-> MsgNoServer]>>

(* C10: the number of held slots always equals the number of tasks        *)
(* started and not yet ended (a task ends when its deferred function      *)
(* gives the slot back), on every exit path; it is zero when the Result   *)
(* stream is closed.                                                      *)
C10_SlotsMatchTasks ==
    /\ sem = Cardinality(ActiveTasks)
    /\ sem >= 0
    /\ resultClosed => sem = 0

\* with limit 1, a task started after tasks that ended on each exit path
C10_Witness ==
    /\ limit = 1
    /\ Len(tasks) = 3
    /\ tasks[1].message = MsgNoServer /\ tasks[1].pc = "exit"
    /\ tasks[2].message = MsgTransport /\ tasks[2].pc = "exit"
    /\ tasks[3].pc = "query"
    /\ sem = 1

----------------------------------------------------------------------------
\* the label of the domain has a non-empty endpoint list in the directory
HasServer(d) == IsKey(LastLabel(d)) /\ rdapLookupMap.kv[LastLabel(d)] # <<>>

\* the URL of the first endpoint of the domain's label
FirstEndpointURL(d) ==
    rdapLookupMap.kv[LastLabel(d)][1] \o <<"/domain/">> \o d

\* the requests of the started tasks, in start order
TaskQueries ==
    SelectSeq([t \in TaskIds |-> tasks[t].query], LAMBDA q : q # <<>>)

(* C11: the task of each dequeued domain issues at most one request: the  *)
(* requests issued are, one for one, the requests of the tasks, a task    *)
(* has a request only if its label has an endpoint, and that request goes *)
(* to the first endpoint of the label; a failed request is not repeated   *)
(* and no other endpoint is tried.                                        *)
C11_OneRequestFirstEndpoint ==
    /\ Len(tasks) <= Len(Dequeued)
    /\ \A t \in TaskIds : tasks[t].domain = Dequeued[t]
    /\ BagOfSeq(requests) = BagOfSeq(TaskQueries)
    /\ Len(requests) <= Len(tasks)
    /\ \A t \in TaskIds :
          /\ tasks[t].query # <<>> =>
                /\ HasServer(tasks[t].domain)
                /\ tasks[t].query = FirstEndpointURL(tasks[t].domain)
          /\ (HasMessage(t) /\ HasServer(tasks[t].domain)) => tasks[t].query # <<>>
          /\ ~HasServer(tasks[t].domain) => tasks[t].query = <<>>

\* the only request of a run went to the first of two endpoints and failed
C11_Witness ==
    /\ resultClosed
    /\ Len(input) >= 2
    /\ rdapLookupMap.kv[Lc] = <<R1, R2>>
    /\ requests = <<rdapLookupURL(R1, Dac)>>
    /\ \E t \in TaskIds : tasks[t].domain = Dac /\ tasks[t].message = MsgTransport

----------------------------------------------------------------------------
(* C12: outcomes reach the stream in the order the tasks hand them over,  *)
(* whatever the order of submission: any task that holds its outcome can  *)
(* deliver it next, earlier tasks need not have delivered, and a further  *)
(* task can be started whenever fewer than the limit are in flight; so    *)
(* with a limit of two or more, of two tasks that both hold an outcome    *)
(* either may deliver first.                                              *)
C12_CompletionOrder ==
    /\ \A t \in TaskIds :
          (Running /\ ~resultClosed /\ tasks[t].pc = "send") => ENABLED TaskSend(t)
    /\ \A t \in TaskIds : (Running /\ tasks[t].pc = "lookup") => ENABLED TaskLookup(t)
    /\ (Running /\ dispPc = "acquire" /\ Cardinality(ActiveTasks) < limit) =>
          ENABLED DispatcherAcquire
    /\ \A i \in 1..Len(printed) :
          \E t \in TaskIds : /\ tasks[t].pc \in {"release", "done", "exit"}
                             /\ tasks[t].domain = printed[i].Domain
                             /\ tasks[t].message = printed[i].Message

\* two domains, the first a hit, both tasks hold their outcome and none is
\* delivered: the first can deliver next, and so can the second
C12_Witness ==
    /\ limit >= 2
    /\ input = <<Dac, Dcx>>
    /\ Len(tasks) = 2
    /\ tasks[1].pc = "send" /\ tasks[2].pc = "send"
    /\ printed = <<>>
    /\ ENABLED TaskSend(1)
    /\ ENABLED TaskSend(2)

----------------------------------------------------------------------------
\* the process has ended
Exited == exitCode # -1

\* as first stated: a run that supplies no domain ends with exit code 1
C13_NoDomainExitsOne ==
    (input = <<>> /\ Exited) => (exitCode = 1 /\ requests = <<>>)

(* C13: main ends as a usage error, with exit code 1 and before anything  *)
(* is fetched, built or started, exactly when neither -d nor -f is given; *)
(* a run that supplies no domain through a -f file performs no lookup and *)
(* delivers nothing, and ends with exit code 0 when the file was read to  *)
(* its end, with exit code 1 when it could not be opened or read.         *)
C13_UsageExit ==
    /\ mainPc = "usage" <=> (mainPc # "start" /\ fDomain = <<>> /\ fFile = "")
    /\ mainPc = "usage" =>
          /\ exitCode = 1
          /\ rdapLookupMap = NilMap
          /\ dispPc = "unstarted" /\ prodPc = "unstarted"
          /\ tasks = <<>> /\ requests = <<>> /\ printed = <<>>
    /\ (input = <<>> /\ fFile # "" /\ err = "") =>
          /\ tasks = <<>> /\ requests = <<>> /\ printed = <<>>
          /\ Exited => exitCode = (IF file = "ok" THEN 0 ELSE 1)
          /\ exitCode = 0 <=> mainPc = "exit"

\* neither flag is given and main has ended as a usage error
C13_Witness ==
    /\ fDomain = <<>> /\ fFile = ""
    /\ mainPc = "usage"
    /\ exitCode = 1

\* an empty file: no domain is supplied and the exit code is 0
C13_EmptyFileWitness ==
    /\ input = <<>> /\ fFile = "f" /\ file = "ok"
    /\ resultClosed
    /\ exitCode = 0

----------------------------------------------------------------------------
\* the tasks that hold their outcome and wait for main to take it
AwaitingSink == {t \in TaskIds : tasks[t].pc = "send"}

\* the tasks whose outcome main has taken
Delivered == {t \in TaskIds : tasks[t].pc \in {"release", "done", "exit"}}

\* as first stated: tasks that wait for main hold no slot, so the
\* dispatcher can start a task whenever fewer than the limit of other
\* tasks are in flight
C14_SlotOnlyDuringCall ==
    (Running /\ dispPc = "acquire"
       /\ Cardinality(ActiveTasks \ AwaitingSink) < limit) =>
        ENABLED DispatcherAcquire

(* C14: a task holds its slot from its start until main has taken its     *)
(* outcome: every task not yet delivered holds a slot, a task reaches its *)
(* deferred release only after its send, and the dispatcher can start a   *)
(* task exactly when fewer than the limit of tasks are started and not    *)
(* yet released, the tasks waiting for main included.                     *)
C14_SlotUntilDelivered ==
    /\ sem >= Cardinality({t \in TaskIds : tasks[t].pc \in {"lookup", "query", "send"}})
    /\ Len(printed) = Cardinality(Delivered)
    /\ (Running /\ dispPc = "acquire") =>
          (ENABLED DispatcherAcquire <=>
             Cardinality({t \in TaskIds :
                 tasks[t].pc \in {"lookup", "query", "send", "release"}}) < limit)

\* no call is in progress, the only task waits for main with its slot, and
\* the dispatcher cannot start the task of the domain it holds
C14_Witness ==
    /\ Running
    /\ limit = 1
    /\ dispPc = "acquire"
    /\ Len(tasks) = 1 /\ tasks[1].pc = "send"
    /\ sem = 1
    /\ ~ENABLED DispatcherAcquire

----------------------------------------------------------------------------
\* the task has issued a request that is never answered
Hung(t) == tasks[t].query # <<>> /\ ~Returns(HttpGet(tasks[t].query))

HungTasks == {t \in TaskIds : Hung(t)}

\* the domain is one whose request is never answered
Hangs(d) == HasServer(d) /\ ~Returns(HttpGet(FirstEndpointURL(d)))

\* a hung task stays in its call with its slot, and the stream stays open
HungHoldsSlot ==
    /\ \A t \in HungTasks : tasks[t].pc = "query"
    /\ sem >= Cardinality(HungTasks)
    /\ HungTasks # {} =>
          /\ wg >= 1
          /\ dispPc \notin {"close", "end"}
          /\ ~resultClosed
          /\ mainPc # "exit"

\* exactly one of the enqueued domains is one whose request is never answered
OneHangs ==
    /\ mainPc = "range"
    /\ Cardinality({i \in 1..Len(input) : Hangs(input[i])}) = 1

\* every enqueued domain but the hanging one has its outcome delivered
OthersDelivered ==
    /\ Len(printed) = Len(input) - 1
    /\ BagOfSeq(PrintedDomains) =
          BagOfSeq(SelectSeq(input, LAMBDA d : ~Hangs(d)))

(* C15: a task whose request is never answered stays in its call and      *)
(* holds its slot, and the Result stream is never closed; with a limit of *)
(* two or more and one such domain, every other enqueued domain           *)
(* eventually has its outcome delivered.                                  *)
C15_HungTask ==
    /\ []HungHoldsSlot
    /\ (limit >= 2 /\ OneHangs) ~> OthersDelivered

\* the first task hangs in its call with a slot, the outcomes of the two
\* domains after it are delivered, and the dispatcher waits for the tasks
C15_Witness ==
    /\ limit = 2
    /\ input = <<Dac, Dbc, Dcx>>
    /\ Len(tasks) = 3
    /\ tasks[1].pc = "query" /\ Hung(1)
    /\ sem = 1
    /\ printed = <<[Domain |-> Dbc, Message |-> MsgUnregistered],
                   [Domain |-> Dcx, Message |-> MsgNoServer]>>
    /\ dispPc = "wait"
    /\ ~resultClosed

----------------------------------------------------------------------------
\* the tasks of the empty domain string
EmptyDomainTasks == {t \in TaskIds : tasks[t].domain = <<>>}

\* the directory gives the empty label at least one endpoint
EmptyLabelServed ==
    /\ ~rdapLookupMap.nil
    /\ <<>> \in DOMAIN rdapLookupMap.kv
    /\ rdapLookupMap.kv[<<>>] # <<>>

\* as first stated: whatever the directory, the task of an empty domain
\* issues no request and its message is "No RDAP server found"
C16_EmptyDomainAlwaysMisses ==
    \A t \in EmptyDomainTasks :
        /\ tasks[t].query = <<>>
        /\ HasMessage(t) => tasks[t].message = MsgNoServer

(* C16: the empty domain string has the empty label; unless the directory *)
(* gives the empty label an endpoint, its task issues no request and its  *)
(* message is "No RDAP server found"; when the directory does, its task   *)
(* requests "<first endpoint>/domain/" and reports what that request      *)
(* gave.                                                                  *)
C16_EmptyDomain ==
    /\ topdomain(<<>>) = <<>>
    /\ \A t \in EmptyDomainTasks :
          IF EmptyLabelServed
          THEN /\ tasks[t].pc # "lookup" =>
                     tasks[t].query = rdapLookupMap.kv[<<>>][1] \o <<"/domain/">>
               /\ HasMessage(t) =>
                     tasks[t].message =
                        (IF HttpGet(tasks[t].query).err THEN MsgTransport
                         ELSE Classify(HttpGet(tasks[t].query).StatusCode))
          ELSE /\ tasks[t].query = <<>>
               /\ tasks[t].pc # "query"
               /\ HasMessage(t) => tasks[t].message = MsgNoServer
    /\ \A i \in 1..Len(printed) :
          (printed[i].Domain = <<>> /\ ~EmptyLabelServed) =>
              printed[i].Message = MsgNoServer

\* empty domains delivered as "No RDAP server found" under a directory that
\* lists the empty label without an endpoint, and no request was issued
C16_Witness ==
    /\ resultClosed
    /\ ~rdapLookupMap.nil
    /\ <<>> \in DOMAIN rdapLookupMap.kv
    /\ ~EmptyLabelServed
    /\ input = <<Dempty, Dempty>>
    /\ \A i \in 1..Len(printed) : printed[i].Message = MsgNoServer
    /\ requests = <<>>

\* the empty label has an endpoint: the empty domain was requested from it
\* and reported as registered
C16_ServedWitness ==
    /\ EmptyLabelServed
    /\ requests = <<rdapLookupURL(R1, Dempty)>>
    /\ printed = <<[Domain |-> Dempty, Message |-> MsgRegistered]>>

----------------------------------------------------------------------------
\* every enqueued domain was dequeued and delivered, the stream is closed
\* and main has returned
RunComplete ==
    /\ prodIdx = Len(input) + 1
    /\ uncheckedClosed
    /\ Len(printed) = Len(input)
    /\ resultClosed
    /\ mainPc = "exit"

\* the goroutines are started with a limit of at least one
Started == limit >= 1 /\ mainPc = "range"

(* C17: with a limit of at least one, a producer that closes the queue,   *)
(* calls that return and a main that keeps receiving, under a fair        *)
(* scheduler the run never deadlocks (some step can be taken until main   *)
(* returns) and it completes: every enqueued domain is dequeued and       *)
(* delivered, the Result stream is closed and the loop of main ends.      *)
C17_NoDeadlock ==
    /\ [](Started => ENABLED Next)
    /\ Started ~> RunComplete

\* a run of three domains under limit 1 is complete
C17_Witness ==
    /\ limit = 1
    /\ Len(input) = 3
    /\ RunComplete

----------------------------------------------------------------------------
(* C18: with limit 0 no slot can ever be acquired: no task is started, no *)
(* request issued and no outcome delivered, and once a domain was         *)
(* enqueued the dispatcher stays at its acquire, the Result stream is     *)
(* never closed and main never returns.                                   *)
C18_ZeroLimitBlocks ==
    limit = 0 =>
        /\ tasks = <<>> /\ sem = 0
        /\ requests = <<>> /\ printed = <<>>
        /\ dispPc = "acquire" => ~ENABLED DispatcherAcquire
        /\ prodIdx > 1 =>
              /\ dispPc = "acquire"
              /\ prodIdx = 2
              /\ wg = 1
        /\ input # <<>> =>
              /\ dispPc \in {"unstarted", "range", "acquire"}
              /\ ~resultClosed
              /\ mainPc # "exit"

\* limit 0 and two domains: the dispatcher holds the first at its acquire,
\* the producer waits with the second, and no step can be taken
C18_Witness ==
    /\ limit = 0
    /\ Len(input) = 2
    /\ dispPc = "acquire"
    /\ dispDomain = input[1]
    /\ prodIdx = 2
    /\ ~ENABLED Next

----------------------------------------------------------------------------
\* the tasks started whose outcome main has not yet taken
Undelivered == {t \in TaskIds : tasks[t].pc \in {"lookup", "query", "send"}}

(* C19: with limit 1 the outcomes are delivered in the order the domains  *)
(* were enqueued: the delivered domains are always a prefix of the input, *)
(* at most one started task is undelivered, and it is the last one        *)
(* started.                                                               *)
C19_InOrderAtLimitOne ==
    limit = 1 =>
        /\ Len(printed) <= Len(input)
        /\ PrintedDomains = SubSeq(input, 1, Len(printed))
        /\ Cardinality(Undelivered) <= 1
        /\ \A t \in Undelivered : t = Len(tasks) /\ Len(printed) = t - 1

\* limit 1: three different domains, the first the slowest kind (a
\* request), delivered in input order
C19_Witness ==
    /\ limit = 1
    /\ input = <<Dac, Dcx, Dempty>>
    /\ resultClosed
    /\ PrintedDomains = input

----------------------------------------------------------------------------
\* the domains taken from the work queue whose outcome is not yet delivered
InFlight == Len(Dequeued) - Len(printed)

\* the dispatcher holds a dequeued domain for which no task is started yet
Held == IF dispPc = "acquire" THEN 1 ELSE 0

(* C20: the domains dequeued and not yet delivered are the undelivered    *)
(* started tasks, at most the limit, plus the one the dispatcher holds at *)
(* its acquire: never more than the limit plus one; the producer cannot   *)
(* hand over a further domain while the dispatcher holds one.             *)
C20_BoundedInFlight ==
    /\ InFlight = Cardinality(Undelivered) + Held
    /\ Cardinality(Undelivered) <= limit
    /\ InFlight <= limit + 1
    /\ Held = 1 => ~ENABLED DispatcherRecv
    /\ Len(tasks) + Held = Len(Dequeued)

\* limit 1: one task undelivered, one domain held by the dispatcher, and the
\* producer waits with the third
C20_Witness ==
    /\ limit = 1
    /\ Len(input) = 3
    /\ InFlight = 2
    /\ prodIdx = 3
    /\ prodPc = "scan"
    /\ ~ENABLED DispatcherRecv

====
